---- MODULE Spec2Model ----
(***************************************************************************)
(* State-machine model of rqt_bag_player's MainWindow::Impl                *)
(* (src/src/rqt_bag_player/mainwindow.cpp).                                *)
(*                                                                         *)
(* Every Qt slot is one action.  open() and save() block in a modal file   *)
(* dialog, so each is split at the dialog: the part before it, and the     *)
(* part that runs once the user has answered.                              *)
(*                                                                         *)
(* Times are integers in units of 1/100 s, the resolution of the           *)
(* QDoubleSpinBox widgets that hold them (two decimals).  Strings are TLA+ *)
(* strings; QStringList is a sequence of strings.                          *)
(***************************************************************************)
EXTENDS Integers, Sequences, FiniteSets, TLC

----------------------------------------------------------------------------
(* Bounds of the exploration. *)

\* ros::Time::now() is read at most MaxNow times (one read per spawned node).
MaxNow == 2

----------------------------------------------------------------------------
(* Program constants. *)

\* QDoubleSpinBox keeps two decimals: 100 spin units per second.
SpinUnitsPerSecond == 100
\* setRange(0.0, 9999.0) of beginTimeSpin, endTimeSpin and timeSpin.
SpinRangeMin == 0
SpinRangeMax == 9999
\* timeSlider->setRange(0.0, 100.0)
SliderMinimum == 0
SliderMaximum == 100
\* option.chop(4)
ChopLength == 4

SpinMinimum == SpinRangeMin * SpinUnitsPerSecond
SpinMaximum == SpinRangeMax * SpinUnitsPerSecond

----------------------------------------------------------------------------
(* Inputs: the files the user can pick, the live-topic snapshots the ROS   *)
(* master can return, the clock messages, the values the user can enter.   *)

\* A bag as rosbag::View reports it: begin and end time, and one
\* ConnectionInfo per connection (a topic with two publishers has two).
Bags ==
    { [path |-> "/a.bag", begin |-> 1000, end |-> 1200,
       connections |-> <<"/a", "/b">>],
      [path |-> "/tf.bag", begin |-> 1000, end |-> 1200,
       connections |-> <<"/tf", "/tf">>] }

\* Files rosbag::Bag cannot open (missing or corrupt).
BadPaths == { "/bad.bag" }

\* File names entered in the save dialog.
SavePaths == { "/out.bag" }

\* Results of ros::master::getTopics (names only; the data type is unused).
Snapshots == { <<>>, <<"/x">>, <<"/y">> }

\* msg->clock of the clock messages.
ClockValues == { 0, 1100 }

\* Values the user types into timeSpin, and positions of timeSlider.
ScrubValues == { 1100 }
SliderValues == { 50 }

\* Durations of the logs loaded to exercise the conversions alone, in
\* 1/100 s, and the largest value entered into timeSpin there.  Among them
\* are pairs whose double quotient falls below an integer (0.09 s of 0.10 s,
\* 0.58 s of 2.00 s) and slider values whose time is halfway between two
\* steps of timeSpin (slider 15 of 0.10 s, slider 50 of 0.25 s).
MapperDurations == { 8, 10, 25, 72, 200 }
MaxElapsed == 60

\* What the user can leave in the config dialog: loop, clock, rate (1/100).
ConfigChoices ==
    { [loop |-> TRUE, clock |-> FALSE, rate |-> 250] }

----------------------------------------------------------------------------
(* Widgets and strings. *)

Min(a, b) == IF a < b THEN a ELSE b
Max(a, b) == IF a > b THEN a ELSE b

\* QDoubleSpinBox::setValue keeps the value inside the range.
SpinBound(v) == Max(SpinMinimum, Min(SpinMaximum, v))

\* QSlider::setValue keeps the value inside the range.
SliderBound(v) == Max(SliderMinimum, Min(SliderMaximum, v))

\* QString("%1").arg(double): format 'g', six significant digits; a value
\* with at most four integer digits and two decimals prints exactly.
FormatDouble(v) ==
    LET i == v \div SpinUnitsPerSecond
        f == v % SpinUnitsPerSecond
    IN  IF f = 0 THEN ToString(i)
        ELSE IF f % 10 = 0 THEN ToString(i) \o "." \o ToString(f \div 10)
        ELSE IF f < 10 THEN ToString(i) \o ".0" \o ToString(f)
        ELSE ToString(i) \o "." \o ToString(f)

\* QString::chop(n): removes n characters from the end.
Chop(s, n) == IF n >= Len(s) THEN "" ELSE SubSeq(s, 1, Len(s) - n)

\* A QTreeWidgetItem: its text and its check state.
Item(text, checked) == [text |-> text, checked |-> checked]

\* One checked item per name, in order: what loadFile and on_timer_timeout
\* put into a tree they have emptied.
CheckedItems(names) == [i \in 1..Len(names) |-> Item(names[i], TRUE)]

\* The texts of the checked items of a tree, in display order.
RECURSIVE CheckedTexts(_)
CheckedTexts(tree) ==
    IF tree = <<>> THEN <<>>
    ELSE (IF Head(tree).checked THEN <<Head(tree).text>> ELSE <<>>)
         \o CheckedTexts(Tail(tree))

\* checkPlay / checkRecord: every item gets the same check state.
SetAll(tree, checked) == [i \in 1..Len(tree) |-> Item(tree[i].text, checked)]

\* The user clicks the check box of item i.
ToggleItem(tree, i) == [tree EXCEPT ![i].checked = ~@]

----------------------------------------------------------------------------
(* Launches: QProcess::startDetached(program, arguments). *)

Launch(program, arguments) == [program |-> program, arguments |-> arguments]

\* QString("play_%1").arg(ros::Time::now().toNSec())
PlayNodeName(t) == "play_" \o ToString(t)
\* QString("record_%1").arg(ros::Time::now().toNSec())
RecordNodeName(t) == "record_" \o ToString(t)

\* rosnode kill /<node>
KillLaunch(node) == Launch("rosnode", <<"kill", "/" \o node>>)

\* rosbag record <checked topics> __name:=<node>
RecordLaunch(tree, node) ==
    Launch("rosbag", <<"record">> \o CheckedTexts(tree) \o <<"__name:=" \o node>>)

\* rosbag play <file> -q [--clock] -r <rate> -s <start> [-l] --topics ... __name:=<node>
PlayLaunch(path, clock, r, start, loop, tree, node) ==
    Launch("rosbag",
           <<"play", path, "-q">>
           \o (IF clock THEN <<"--clock">> ELSE <<>>)
           \o <<"-r", FormatDouble(r), "-s", FormatDouble(start)>>
           \o (IF loop THEN <<"-l">> ELSE <<>>)
           \o <<"--topics">> \o CheckedTexts(tree)
           \o <<"__name:=" \o node>>)

\* The option string of saveFile: "topic == " followed by "'<text>' or " for
\* every checked item, then chopped by four characters.
RECURSIVE FilterClauses(_)
FilterClauses(tree) ==
    IF tree = <<>> THEN ""
    ELSE (IF Head(tree).checked THEN "'" \o Head(tree).text \o "' or " ELSE "")
         \o FilterClauses(Tail(tree))

FilterOption(tree) == Chop("topic == " \o FilterClauses(tree), ChopLength)

\* rosbag filter <source> <destination> <option>
FilterLaunch(source, destination, tree) ==
    Launch("rosbag", <<"filter", source, destination, FilterOption(tree)>>)

----------------------------------------------------------------------------
(* The double arithmetic of the conversions.  A natural number too large for
   an integer of the model is a sequence of limbs, least significant first,
   without leading zero limbs; a non-negative double is the exact value
   m * 2^e of its mantissa m (such a number) and its exponent e. *)

LimbBits == 15
LimbBase == 2^LimbBits

\* The bits of the mantissa of a double.
MantissaBits == 53

RECURSIVE Trim(_)
Trim(a) ==
    IF a # <<>> /\ a[Len(a)] = 0 THEN Trim(SubSeq(a, 1, Len(a) - 1)) ELSE a

BigFromInt(n) ==
    Trim(<< n % LimbBase, (n \div LimbBase) % LimbBase,
            n \div (LimbBase * LimbBase) >>)

RECURSIVE BigToInt(_)
BigToInt(a) ==
    IF a = <<>> THEN 0 ELSE Head(a) + LimbBase * BigToInt(Tail(a))

\* a * k + c for small k and c
RECURSIVE MulSmallCarry(_, _, _)
MulSmallCarry(a, k, c) ==
    IF a = <<>>
    THEN IF c = 0 THEN <<>> ELSE <<c>>
    ELSE LET t == Head(a) * k + c
         IN  <<t % LimbBase>> \o MulSmallCarry(Tail(a), k, t \div LimbBase)

BigMulSmall(a, k) == Trim(MulSmallCarry(a, k, 0))

\* 2 * a + bit
BigDouble(a, bit) == MulSmallCarry(a, 2, bit)

RECURSIVE CompareFrom(_, _, _)
CompareFrom(a, b, i) ==
    IF i = 0 THEN 0
    ELSE IF a[i] # b[i] THEN (IF a[i] < b[i] THEN -1 ELSE 1)
    ELSE CompareFrom(a, b, i - 1)

\* -1, 0 or 1 as a is below, equal to or above b
BigCompare(a, b) ==
    IF Len(a) # Len(b)
    THEN IF Len(a) < Len(b) THEN -1 ELSE 1
    ELSE CompareFrom(a, b, Len(a))

RECURSIVE AddCarry(_, _, _)
AddCarry(a, b, c) ==
    IF a = <<>> /\ b = <<>>
    THEN IF c = 0 THEN <<>> ELSE <<c>>
    ELSE LET x == IF a = <<>> THEN 0 ELSE Head(a)
             y == IF b = <<>> THEN 0 ELSE Head(b)
             t == x + y + c
         IN  <<t % LimbBase>>
             \o AddCarry(IF a = <<>> THEN <<>> ELSE Tail(a),
                         IF b = <<>> THEN <<>> ELSE Tail(b),
                         t \div LimbBase)

BigAdd(a, b) == Trim(AddCarry(a, b, 0))

\* a - b - c for a >= b + c
RECURSIVE SubBorrow(_, _, _)
SubBorrow(a, b, c) ==
    IF a = <<>> THEN <<>>
    ELSE LET y == IF b = <<>> THEN 0 ELSE Head(b)
             t == Head(a) - y - c
         IN  <<IF t < 0 THEN t + LimbBase ELSE t>>
             \o SubBorrow(Tail(a), IF b = <<>> THEN <<>> ELSE Tail(b),
                          IF t < 0 THEN 1 ELSE 0)

BigSub(a, b) == Trim(SubBorrow(a, b, 0))

RECURSIVE BigMul(_, _)
BigMul(a, b) ==
    IF a = <<>> \/ b = <<>> THEN <<>>
    ELSE BigAdd(BigMulSmall(a, Head(b)), Trim(<<0>> \o BigMul(a, Tail(b))))

RECURSIVE SmallBitLength(_)
SmallBitLength(n) == IF n = 0 THEN 0 ELSE 1 + SmallBitLength(n \div 2)

BitLength(a) ==
    IF a = <<>> THEN 0
    ELSE LimbBits * (Len(a) - 1) + SmallBitLength(a[Len(a)])

\* Bit i of a, bit 0 being the least significant.
Bit(a, i) == (a[i \div LimbBits + 1] \div 2^(i % LimbBits)) % 2

BigPow2(k) == [i \in 1..(k \div LimbBits) |-> 0] \o << 2^(k % LimbBits) >>

\* The largest digit q with q * den <= r, for r < den * LimbBase: its bits
\* from bit b down, q being the bits found so far.
RECURSIVE QuotientDigit(_, _, _, _)
QuotientDigit(r, den, b, q) ==
    IF b < 0 THEN q
    ELSE IF BigCompare(BigMulSmall(den, q + 2^b), r) <= 0
         THEN QuotientDigit(r, den, b - 1, q + 2^b)
         ELSE QuotientDigit(r, den, b - 1, q)

\* Long division of num by den, limb by limb from the top:
\* <<quotient, remainder>> of the n highest limbs of num.
RECURSIVE LongDiv(_, _, _)
LongDiv(num, den, n) ==
    IF n = 0 THEN << <<>>, <<>> >>
    ELSE LET d == LongDiv(num, den, n - 1)
             r == Trim(<< num[Len(num) - n + 1] >> \o d[2])
             q == QuotientDigit(r, den, LimbBits - 1, 0)
         IN  << Trim(<<q>> \o d[1]), BigSub(r, BigMulSmall(den, q)) >>

\* <<floor(num * 2^s / den), remainder>>
BigDivMod(num, den, s) ==
    LET n == BigMul(num, BigPow2(s))
    IN  LongDiv(n, den, Len(n))

Double(m, e) == [m |-> m, e |-> e]

\* int -> double, exact for the integers of the model
DoubleFromInt(n) == Double(BigFromInt(n), 0)

\* The double nearest to n * 2^e, ties to the even mantissa.
DoubleRound(n, e) ==
    LET k == BitLength(n) - MantissaBits
    IN  IF k <= 0 THEN Double(n, e)
        ELSE LET d == BigDivMod(n, BigPow2(k), 0)
                 c == BigCompare(BigDouble(d[2], 0), BigPow2(k))
                 up == c > 0 \/ (c = 0 /\ Bit(d[1], 0) = 1)
             IN  Double(IF up THEN BigAdd(d[1], <<1>>) ELSE d[1], e + k)

\* x / y in double, y # 0.  The quotient is taken to more bits than the
\* mantissa holds, with one more bit that records a remainder.
DoubleDiv(x, y) ==
    IF x.m = <<>> THEN x
    ELSE LET s == MantissaBits + 4 + BitLength(y.m) - Min(BitLength(x.m), BitLength(y.m))
             d == BigDivMod(x.m, y.m, s)
         IN  DoubleRound(BigDouble(d[1], IF d[2] = <<>> THEN 0 ELSE 1),
                         x.e - y.e - s - 1)

\* x * y in double
DoubleMul(x, y) == DoubleRound(BigMul(x.m, y.m), x.e + y.e)

\* double -> int (truncation), for values an int holds
DoubleToInt(x) ==
    IF x.e >= 0
    THEN BigToInt(BigMul(x.m, BigPow2(x.e)))
    ELSE BigToInt(BigDivMod(x.m, BigPow2(-x.e), 0)[1])

\* The durations and the times of the inputs of Spec and SpecMapper.
TableDurations == { b.end - b.begin : b \in Bags } \cup MapperDurations \cup { 0 }

TableTimes ==
    (0..MaxElapsed) \cup ScrubValues
        \cup { SpinBound(c - t) : c \in ClockValues,
                                 t \in { b.begin : b \in Bags } \cup { 0 } }

\* The value QDoubleSpinBox::value() returns for a field showing n / 100:
\* the double nearest to that decimal.
SpinDouble_computed(n) ==
    DoubleDiv(DoubleFromInt(n), DoubleFromInt(SpinUnitsPerSecond))

\* (f @@ g is the function f extended by g, tabulated: the values on the
\* inputs of Spec and SpecMapper are computed once.)
SpinDoubleTable ==
    [ n \in TableTimes \cup TableDurations |-> SpinDouble_computed(n) ] @@ << >>

SpinDouble(n) ==
    IF n \in TableTimes \cup TableDurations
    THEN SpinDoubleTable[n]
    ELSE SpinDouble_computed(n)

\* (double)value / (double)(max - min) of on_timeSlider_valueChanged.
SliderRatio_computed(value) ==
    DoubleDiv(DoubleFromInt(value), DoubleFromInt(SliderMaximum - SliderMinimum))

SliderRatioTable ==
    [ v \in SliderMinimum..SliderMaximum |-> SliderRatio_computed(v) ] @@ << >>

SliderRatio(value) ==
    IF value \in SliderMinimum..SliderMaximum
    THEN SliderRatioTable[value]
    ELSE SliderRatio_computed(value)

\* QDoubleSpinBox::setValue rounds to the two decimals of the field with
\* QString::number(x, 'f', 2): the multiples of 1/100 nearest to x.  When x
\* is exactly halfway, Qt's own number formatting rounds up and a formatting
\* by the C library rounds to the even digit: both are kept.
SpinRound(x) ==
    LET n == BigMulSmall(x.m, SpinUnitsPerSecond)
    IN  IF x.e >= 0
        THEN { BigToInt(BigMul(n, BigPow2(x.e))) }
        ELSE LET d == BigDivMod(n, BigPow2(-x.e), 0)
                 q == BigToInt(d[1])
                 c == BigCompare(BigDouble(d[2], 0), BigPow2(-x.e))
             IN  IF c < 0 THEN { q }
                 ELSE IF c > 0 THEN { q + 1 }
                 ELSE { q + 1, q + (q % 2) }

----------------------------------------------------------------------------
(* Time <-> slider conversions. *)

\* on_timeSpin_valueChanged: the slider value (max - min) * (value / duration),
\* computed in double and converted to int (truncation); value and duration
\* are the numbers of 1/100 s the fields show, beginTimeSpin showing 0.
\* With duration 0 the quotient is infinite or NaN and its conversion to int
\* is undefined: the builds at hand yield INT_MIN or INT_MAX, which QSlider
\* bounds to either end.
SliderFromTime_computed(value, duration) ==
    IF duration = 0
    THEN { SliderMinimum, SliderMaximum }
    ELSE LET ratio == DoubleDiv(SpinDouble(value), SpinDouble(duration))
         IN  { SliderBound(DoubleToInt(
                   DoubleMul(DoubleFromInt(SliderMaximum - SliderMinimum), ratio))) }

\* on_timeSlider_valueChanged: duration * (value / (max - min)) in double,
\* which timeSpin rounds to its two decimals and bounds to its range.
TimeFromSlider_computed(value, duration) ==
    { SpinBound(t) :
        t \in SpinRound(DoubleMul(SpinDouble(duration), SliderRatio(value))) }

\* The conversions on the inputs of Spec and SpecMapper, computed once.
SliderFromTimeTable ==
    [ p \in TableTimes \X TableDurations |-> SliderFromTime_computed(p[1], p[2]) ]
        @@ << >>

TimeFromSliderTable ==
    [ p \in (SliderMinimum..SliderMaximum) \X TableDurations
        |-> TimeFromSlider_computed(p[1], p[2]) ]
        @@ << >>

\* MainWindow::Impl::on_timeSpin_valueChanged: the possible slider values.
SliderFromTime(value, duration) ==
    IF value \in TableTimes /\ duration \in TableDurations
    THEN SliderFromTimeTable[<< value, duration >>]
    ELSE SliderFromTime_computed(value, duration)

\* MainWindow::Impl::on_timeSlider_valueChanged: the possible values of
\* timeSpin.
TimeFromSlider(value, duration) ==
    IF value \in SliderMinimum..SliderMaximum /\ duration \in TableDurations
    THEN TimeFromSliderTable[<< value, duration >>]
    ELSE TimeFromSlider_computed(value, duration)

----------------------------------------------------------------------------
(* State. *)

VARIABLES
    pc,               \* "idle", or the modal dialog that is open, or "terminated"
    filePath,         \* QString filePath
    playTree,         \* items of playTree
    recordTree,       \* items of recordTree
    numTopics,        \* static int numTopics of on_timer_timeout
    recordNode,       \* QString recordNode
    playNode,         \* QString playNode
    is_recording, is_playing,
    is_loop_checked, is_clock_checked, rate,
    recordAct,        \* checked state of the checkable action recordAct
    timer,            \* TRUE while the QTimer is active
    begin_time, end_time,
    beginTimeSpin, endTimeSpin, timeSpin, timeSlider,
    now,              \* number of reads of ros::Time::now() so far
    out,              \* the launches of the last handler, in order
    live,             \* nodes spawned and not yet the target of a kill
    lastOp            \* the last handler that ran, and its input

vars == << pc, filePath, playTree, recordTree, numTopics, recordNode, playNode,
           is_recording, is_playing, is_loop_checked, is_clock_checked, rate,
           recordAct, timer, begin_time, end_time, beginTimeSpin, endTimeSpin,
           timeSpin, timeSlider, now, out, live, lastOp >>

\* The fields the play / record / stop code writes, gathered in one record
\* so that a handler can thread them through the functions it calls.
Session ==
    [ is_playing |-> is_playing, playNode |-> playNode,
      is_recording |-> is_recording, recordNode |-> recordNode,
      recordAct |-> recordAct, now |-> now, out |-> <<>>, live |-> live ]

Commit(m) ==
    /\ is_playing' = m.is_playing
    /\ playNode' = m.playNode
    /\ is_recording' = m.is_recording
    /\ recordNode' = m.recordNode
    /\ recordAct' = m.recordAct
    /\ now' = m.now
    /\ out' = m.out
    /\ live' = m.live

Op(name, arg) == [op |-> name, arg |-> arg]

config_vars == << is_loop_checked, is_clock_checked, rate >>
log_vars == << filePath, begin_time, end_time, beginTimeSpin, endTimeSpin >>
scrub_vars == << timeSpin, timeSlider >>
record_list_vars == << recordTree, numTopics >>

\* MainWindow::Impl::Impl and createToolBars.
Init ==
    /\ pc = "idle"
    /\ filePath = ""
    /\ playTree = <<>>
    /\ recordTree = <<>>
    /\ numTopics = 0
    /\ recordNode = ""
    /\ playNode = ""
    /\ is_recording = FALSE
    /\ is_playing = FALSE
    /\ is_loop_checked = FALSE
    /\ is_clock_checked = TRUE
    /\ rate = SpinUnitsPerSecond
    /\ recordAct = FALSE
    /\ timer = TRUE
    /\ begin_time = 0
    /\ end_time = 0
    /\ beginTimeSpin = SpinMinimum
    /\ endTimeSpin = SpinMinimum
    /\ timeSpin = SpinMinimum
    /\ timeSlider = SliderMinimum
    /\ now = 0
    /\ out = <<>>
    /\ live = {}
    /\ lastOp = Op("Impl", <<>>)

----------------------------------------------------------------------------
(* The functions the handlers call. *)

\* stop() without the test of is_playing.
stop_unconditional(m) ==
    [m EXCEPT !.out = Append(@, KillLaunch(m.playNode)),
              !.live = @ \ {m.playNode},
              !.is_playing = FALSE]

\* MainWindow::Impl::stop
stop(m) ==
    IF m.is_playing
    THEN [m EXCEPT !.out = Append(@, KillLaunch(m.playNode)),
                   !.live = @ \ {m.playNode},
                   !.is_playing = FALSE]
    ELSE m

\* play() that sets the flag and spawns but never stores the node name.
play_keepsNode(m, start) ==
    IF filePath # ""
    THEN LET node == PlayNodeName(m.now)
         IN  [m EXCEPT !.now = @ + 1,
                       !.out = Append(@, PlayLaunch(filePath, is_clock_checked, rate,
                                                    start, is_loop_checked,
                                                    playTree, node)),
                       !.live = @ \cup {node},
                       !.is_playing = TRUE]
    ELSE [m EXCEPT !.is_playing = FALSE]

\* play() without the test of filePath.
play_ignoresEmptyPath(m, start) ==
    LET node == PlayNodeName(m.now)
    IN  [m EXCEPT !.playNode = node,
                  !.now = @ + 1,
                  !.out = Append(@, PlayLaunch(filePath, is_clock_checked, rate,
                                               start, is_loop_checked,
                                               playTree, node)),
                  !.live = @ \cup {node},
                  !.is_playing = TRUE]

\* play() that always starts the playback at 0.
play_fromStart(m, start) ==
    IF filePath # ""
    THEN LET node == PlayNodeName(m.now)
         IN  [m EXCEPT !.playNode = node,
                       !.now = @ + 1,
                       !.out = Append(@, PlayLaunch(filePath, is_clock_checked, rate,
                                                    0, is_loop_checked,
                                                    playTree, node)),
                       !.live = @ \cup {node},
                       !.is_playing = TRUE]
    ELSE [m EXCEPT !.is_playing = FALSE]

\* MainWindow::Impl::play, started at position start
play(m, start) ==
    IF filePath # ""
    THEN LET node == PlayNodeName(m.now)
         IN  [m EXCEPT !.playNode = node,
                       !.now = @ + 1,
                       !.out = Append(@, PlayLaunch(filePath, is_clock_checked, rate,
                                                    start, is_loop_checked,
                                                    playTree, node)),
                       !.live = @ \cup {node},
                       !.is_playing = TRUE]
    ELSE [m EXCEPT !.is_playing = FALSE]

\* record() that leaves recordAct checked when the tree is empty.
record_keepsChecked(checked, m) ==
    LET count == Len(recordTree)
    IN  IF checked
        THEN IF count > 0
             THEN LET node == RecordNodeName(m.now)
                  IN  [m EXCEPT !.recordNode = node,
                                !.now = @ + 1,
                                !.out = Append(@, RecordLaunch(recordTree, node)),
                                !.live = @ \cup {node},
                                !.is_recording = TRUE]
             ELSE [m EXCEPT !.is_recording = FALSE]
        ELSE IF m.is_recording
             THEN [m EXCEPT !.out = Append(@, KillLaunch(m.recordNode)),
                            !.live = @ \ {m.recordNode},
                            !.is_recording = FALSE]
             ELSE [m EXCEPT !.is_recording = FALSE]

\* MainWindow::Impl::record(checked), and QAction::setChecked on recordAct,
\* whose toggled signal calls record again when the state changes.
RECURSIVE record(_, _), recordAct_setChecked(_, _)
record(checked, m) ==
    LET count == Len(recordTree)
        m1 == IF count = 0 THEN recordAct_setChecked(FALSE, m) ELSE m
    IN  IF checked
        THEN IF count > 0
             THEN LET node == RecordNodeName(m1.now)
                  IN  [m1 EXCEPT !.recordNode = node,
                                 !.now = @ + 1,
                                 !.out = Append(@, RecordLaunch(recordTree, node)),
                                 !.live = @ \cup {node},
                                 !.is_recording = TRUE]
             ELSE [m1 EXCEPT !.is_recording = FALSE]
        ELSE IF m1.is_recording
             THEN [m1 EXCEPT !.out = Append(@, KillLaunch(m1.recordNode)),
                             !.live = @ \ {m1.recordNode},
                             !.is_recording = FALSE]
             ELSE [m1 EXCEPT !.is_recording = FALSE]

recordAct_setChecked(checked, m) ==
    IF m.recordAct = checked
    THEN m
    ELSE record(checked, [m EXCEPT !.recordAct = checked])

\* QDoubleSpinBox::setValue on timeSpin: the value is bounded to the range;
\* when it differs from the present one, valueChanged runs
\* on_timeSpin_valueChanged, which sets the slider (signals blocked).
\* The set of the possible <<timeSpin, timeSlider>> pairs.
timeSpin_setValue(value) ==
    LET v == SpinBound(value)
    IN  IF v = timeSpin
        THEN { <<timeSpin, timeSlider>> }
        ELSE { <<v, s>> : s \in SliderFromTime(v, endTimeSpin - beginTimeSpin) }

----------------------------------------------------------------------------
(* The handlers. *)

\* open() that goes to the file dialog without stopping the playback.
open_withoutStop ==
    /\ pc = "idle"
    /\ Commit(Session)
    /\ timer' = FALSE
    /\ pc' = "open"
    /\ lastOp' = Op("open", <<>>)
    /\ UNCHANGED << playTree, log_vars, scrub_vars, record_list_vars, config_vars >>

\* MainWindow::Impl::open up to the file dialog: stop() when playing, then
\* timer->stop(), then the modal QFileDialog::getOpenFileName.
open ==
    /\ pc = "idle"
    /\ Commit(IF is_playing THEN stop(Session) ELSE Session)
    /\ timer' = FALSE
    /\ pc' = "open"
    /\ lastOp' = Op("open", <<>>)
    /\ UNCHANGED << playTree, log_vars, scrub_vars, record_list_vars, config_vars >>

\* open(): the dialog returns an empty file name; the function returns at
\* once, before timer->start.
open_cancel ==
    /\ pc = "open"
    /\ pc' = "idle"
    /\ out' = <<>>
    /\ lastOp' = Op("open_cancel", <<>>)
    /\ UNCHANGED << playTree, log_vars, scrub_vars, record_list_vars, config_vars,
                    is_playing, playNode, is_recording, recordNode, recordAct,
                    now, live, timer >>

\* MainWindow::Impl::loadFile on a bag rosbag can read: the new state of
\* <<filePath, playTree, begin_time, end_time, beginTimeSpin, endTimeSpin>>.
loadFile(bag) ==
    << bag.path,
       CheckedItems(bag.connections),
       bag.begin,
       bag.end,
       SpinBound(0),
       SpinBound(bag.end - bag.begin) >>

\* open(): the dialog returns a file name that loadFile can read; then
\* timer->start.
open_loadFile(bag) ==
    /\ pc = "open"
    /\ LET r == loadFile(bag)
       IN  /\ filePath' = r[1]
           /\ playTree' = r[2]
           /\ begin_time' = r[3]
           /\ end_time' = r[4]
           /\ beginTimeSpin' = r[5]
           /\ endTimeSpin' = r[6]
    /\ timer' = TRUE
    /\ pc' = "idle"
    /\ out' = <<>>
    /\ lastOp' = Op("open_loadFile", <<bag.path>>)
    /\ UNCHANGED << scrub_vars, record_list_vars, config_vars, is_playing, playNode,
                    is_recording, recordNode, recordAct, now, live >>

\* MainWindow::Impl::loadFile on a file rosbag cannot read: filePath is
\* assigned and playTree emptied before the rosbag::Bag constructor throws.
\* The new state of <<filePath, playTree>>.
loadFile_throw(fileName) == << fileName, <<>> >>

\* open(): the dialog returns a file name and loadFile throws.  Nothing in
\* the program catches the exception: it leaves the slot and the event loop
\* and the session ends (timer->start is never reached).
open_loadFile_throw(fileName) ==
    /\ pc = "open"
    /\ LET r == loadFile_throw(fileName)
       IN  /\ filePath' = r[1]
           /\ playTree' = r[2]
    /\ pc' = "terminated"
    /\ out' = <<>>
    /\ lastOp' = Op("open_loadFile_throw", <<fileName>>)
    /\ UNCHANGED << begin_time, end_time, beginTimeSpin, endTimeSpin,
                    scrub_vars, record_list_vars, config_vars, is_playing, playNode,
                    is_recording, recordNode, recordAct, now, live, timer >>

\* MainWindow::Impl::save up to the file dialog.
save ==
    /\ pc = "idle"
    /\ Commit(IF is_playing THEN stop(Session) ELSE Session)
    /\ timer' = FALSE
    /\ pc' = "save"
    /\ lastOp' = Op("save", <<>>)
    /\ UNCHANGED << playTree, log_vars, scrub_vars, record_list_vars, config_vars >>

\* save(): the dialog returns an empty file name.
save_cancel ==
    /\ pc = "save"
    /\ pc' = "idle"
    /\ out' = <<>>
    /\ lastOp' = Op("save_cancel", <<>>)
    /\ UNCHANGED << playTree, log_vars, scrub_vars, record_list_vars, config_vars,
                    is_playing, playNode, is_recording, recordNode, recordAct,
                    now, live, timer >>

\* MainWindow::Impl::saveFile: the launches it makes.
saveFile(fileName) ==
    IF Len(playTree) > 0
    THEN << FilterLaunch(filePath, fileName, playTree) >>
    ELSE <<>>

\* save(): the dialog returns a file name; saveFile, then timer->start.
save_saveFile(fileName) ==
    /\ pc = "save"
    /\ out' = saveFile(fileName)
    /\ timer' = TRUE
    /\ pc' = "idle"
    /\ lastOp' = Op("save_saveFile", <<fileName>>)
    /\ UNCHANGED << playTree, log_vars, scrub_vars, record_list_vars, config_vars,
                    is_playing, playNode, is_recording, recordNode, recordAct,
                    now, live >>

\* The user clicks recordAct: its checked state flips and toggled(checked)
\* runs record(checked).
recordAct_toggled ==
    /\ pc = "idle"
    /\ LET m == recordAct_setChecked(~recordAct, Session)
       IN  /\ m.now <= MaxNow
           /\ Commit(m)
    /\ lastOp' = Op("record", << IF recordAct THEN "false" ELSE "true" >>)
    /\ UNCHANGED << pc, playTree, log_vars, scrub_vars, record_list_vars,
                    config_vars, timer >>

\* MainWindow::Impl::clickPlay
clickPlay ==
    /\ pc = "idle"
    /\ \E p \in timeSpin_setValue(0) :
          /\ timeSpin' = p[1]
          /\ timeSlider' = p[2]
          /\ LET m == play(Session, p[1])
             IN  /\ m.now <= MaxNow
                 /\ Commit(m)
    /\ lastOp' = Op("clickPlay", <<>>)
    /\ UNCHANGED << pc, playTree, log_vars, record_list_vars, config_vars, timer >>

\* MainWindow::Impl::clickResume
clickResume ==
    /\ pc = "idle"
    /\ LET m == IF is_playing THEN stop(Session) ELSE play(Session, timeSpin)
       IN  /\ m.now <= MaxNow
           /\ Commit(m)
    /\ lastOp' = Op("clickResume", <<>>)
    /\ UNCHANGED << pc, playTree, log_vars, scrub_vars, record_list_vars,
                    config_vars, timer >>

\* MainWindow::Impl::clickStop
clickStop ==
    /\ pc = "idle"
    /\ Commit(stop(IF is_recording
                   THEN recordAct_setChecked(FALSE, Session)
                   ELSE Session))
    /\ lastOp' = Op("clickStop", <<>>)
    /\ UNCHANGED << pc, playTree, log_vars, scrub_vars, record_list_vars,
                    config_vars, timer >>

\* MainWindow::Impl::config up to dialog.exec(): the dialog is shown with the
\* present settings.  Its event loop runs while it is open, and the timer
\* is not stopped: on_timer_timeout and clockCallback are delivered.
config ==
    /\ pc = "idle"
    /\ pc' = "config"
    /\ out' = <<>>
    /\ lastOp' = Op("config", <<>>)
    /\ UNCHANGED << playTree, log_vars, scrub_vars, record_list_vars, config_vars,
                    is_playing, playNode, is_recording, recordNode, recordAct,
                    now, live, timer >>

\* config() whose rejected dialog stores the values of a choice all the same.
config_reject_stores ==
    /\ pc = "config"
    /\ \E choice \in ConfigChoices :
          /\ is_loop_checked' = choice.loop
          /\ is_clock_checked' = choice.clock
          /\ rate' = choice.rate
    /\ pc' = "idle"
    /\ out' = <<>>
    /\ lastOp' = Op("config_reject", <<>>)
    /\ UNCHANGED << playTree, log_vars, scrub_vars, record_list_vars,
                    is_playing, playNode, is_recording, recordNode, recordAct,
                    now, live, timer >>

\* config(): dialog.exec() returns Accepted with the values of choice.
config_accept(choice) ==
    /\ pc = "config"
    /\ is_loop_checked' = choice.loop
    /\ is_clock_checked' = choice.clock
    /\ rate' = choice.rate
    /\ pc' = "idle"
    /\ out' = <<>>
    /\ lastOp' = Op("config_accept", <<>>)
    /\ UNCHANGED << playTree, log_vars, scrub_vars, record_list_vars,
                    is_playing, playNode, is_recording, recordNode, recordAct,
                    now, live, timer >>

\* config(): dialog.exec() returns Rejected.
config_reject ==
    /\ pc = "config"
    /\ pc' = "idle"
    /\ out' = <<>>
    /\ lastOp' = Op("config_reject", <<>>)
    /\ UNCHANGED << playTree, log_vars, scrub_vars, record_list_vars, config_vars,
                    is_playing, playNode, is_recording, recordNode, recordAct,
                    now, live, timer >>

\* MainWindow::Impl::checkPlay
checkPlay(checked) ==
    /\ pc = "idle"
    /\ playTree' = SetAll(playTree, checked)
    /\ out' = <<>>
    /\ lastOp' = Op("checkPlay", <<>>)
    /\ UNCHANGED << pc, log_vars, scrub_vars, record_list_vars, config_vars,
                    is_playing, playNode, is_recording, recordNode, recordAct,
                    now, live, timer >>

\* MainWindow::Impl::checkRecord
checkRecord(checked) ==
    /\ pc = "idle"
    /\ recordTree' = SetAll(recordTree, checked)
    /\ out' = <<>>
    /\ lastOp' = Op("checkRecord", <<>>)
    /\ UNCHANGED << pc, playTree, log_vars, scrub_vars, numTopics, config_vars,
                    is_playing, playNode, is_recording, recordNode, recordAct,
                    now, live, timer >>

\* The user clicks the check box of one item of playTree.
playTree_itemChecked(i) ==
    /\ pc = "idle"
    /\ playTree' = ToggleItem(playTree, i)
    /\ out' = <<>>
    /\ lastOp' = Op("playTree_itemChecked", <<>>)
    /\ UNCHANGED << pc, log_vars, scrub_vars, record_list_vars, config_vars,
                    is_playing, playNode, is_recording, recordNode, recordAct,
                    now, live, timer >>

\* The user clicks the check box of one item of recordTree.
recordTree_itemChecked(i) ==
    /\ pc = "idle"
    /\ recordTree' = ToggleItem(recordTree, i)
    /\ out' = <<>>
    /\ lastOp' = Op("recordTree_itemChecked", <<>>)
    /\ UNCHANGED << pc, playTree, log_vars, scrub_vars, numTopics, config_vars,
                    is_playing, playNode, is_recording, recordNode, recordAct,
                    now, live, timer >>

\* on_timer_timeout that rebuilds recordTree on every snapshot.
rebuildRecordTree_always(topics) == << Len(topics), CheckedItems(topics) >>

\* MainWindow::Impl::on_timer_timeout when getTopics returns topics: the new
\* state of <<numTopics, recordTree>>.
rebuildRecordTree(topics) ==
    IF Len(topics) # numTopics
    THEN << Len(topics), CheckedItems(topics) >>
    ELSE << numTopics, recordTree >>

\* MainWindow::Impl::on_timer_timeout, getTopics succeeding.
on_timer_timeout(topics) ==
    /\ pc \in { "idle", "config" }
    /\ timer
    /\ LET r == rebuildRecordTree(topics)
       IN  /\ numTopics' = r[1]
           /\ recordTree' = r[2]
    /\ out' = <<>>
    /\ lastOp' = Op("on_timer_timeout", topics)
    /\ UNCHANGED << pc, playTree, log_vars, scrub_vars, config_vars,
                    is_playing, playNode, is_recording, recordNode, recordAct,
                    now, live, timer >>

\* MainWindow::Impl::on_timer_timeout, getTopics returning false.
on_timer_timeout_failed ==
    /\ pc \in { "idle", "config" }
    /\ timer
    /\ out' = <<>>
    /\ lastOp' = Op("on_timer_timeout_failed", <<>>)
    /\ UNCHANGED << pc, playTree, log_vars, scrub_vars, record_list_vars, config_vars,
                    is_playing, playNode, is_recording, recordNode, recordAct,
                    now, live, timer >>

\* MainWindow::Impl::clockCallback.  The clock feed does not depend on the
\* window: it is delivered while a dialog is open too.
clockCallback(clock) ==
    /\ pc \in { "idle", "open", "save", "config" }
    /\ \E p \in timeSpin_setValue(clock - begin_time) :
          /\ timeSpin' = p[1]
          /\ timeSlider' = p[2]
    /\ out' = <<>>
    /\ lastOp' = Op("clockCallback", <<>>)
    /\ UNCHANGED << pc, playTree, log_vars, record_list_vars, config_vars,
                    is_playing, playNode, is_recording, recordNode, recordAct,
                    now, live, timer >>

\* The user enters a value into timeSpin.
timeSpin_edited(value) ==
    /\ pc = "idle"
    /\ \E p \in timeSpin_setValue(value) :
          /\ timeSpin' = p[1]
          /\ timeSlider' = p[2]
    /\ out' = <<>>
    /\ lastOp' = Op("timeSpin_edited", <<>>)
    /\ UNCHANGED << pc, playTree, log_vars, record_list_vars, config_vars,
                    is_playing, playNode, is_recording, recordNode, recordAct,
                    now, live, timer >>

\* The user moves timeSlider to another value: on_timeSlider_valueChanged
\* sets timeSpin with its signals blocked.
on_timeSlider_valueChanged(value) ==
    /\ pc = "idle"
    /\ value # timeSlider
    /\ timeSlider' = value
    /\ timeSpin' \in TimeFromSlider(value, endTimeSpin - beginTimeSpin)
    /\ out' = <<>>
    /\ lastOp' = Op("on_timeSlider_valueChanged", <<>>)
    /\ UNCHANGED << pc, playTree, log_vars, record_list_vars, config_vars,
                    is_playing, playNode, is_recording, recordNode, recordAct,
                    now, live, timer >>

Next ==
    \/ open
    \/ open_cancel
    \/ \E bag \in Bags : open_loadFile(bag)
    \/ \E fileName \in BadPaths : open_loadFile_throw(fileName)
    \/ save
    \/ save_cancel
    \/ \E fileName \in SavePaths : save_saveFile(fileName)
    \/ recordAct_toggled
    \/ clickPlay
    \/ clickResume
    \/ clickStop
    \/ config
    \/ \E choice \in ConfigChoices : config_accept(choice)
    \/ config_reject
    \/ \E checked \in BOOLEAN : checkPlay(checked)
    \/ \E checked \in BOOLEAN : checkRecord(checked)
    \/ \E i \in 1..Len(playTree) : playTree_itemChecked(i)
    \/ \E i \in 1..Len(recordTree) : recordTree_itemChecked(i)
    \/ \E topics \in Snapshots : on_timer_timeout(topics)
    \/ on_timer_timeout_failed
    \/ \E clock \in ClockValues : clockCallback(clock)
    \/ \E value \in ScrubValues : timeSpin_edited(value)
    \/ \E value \in SliderValues : on_timeSlider_valueChanged(value)

Spec == Init /\ [][Next]_vars

----------------------------------------------------------------------------
(* The conversions alone: a log of each duration is loaded, then timeSpin
   and timeSlider are set to every value of their bounded domains. *)

MapperBags ==
    { [ path |-> "/m.bag", begin |-> 1000, end |-> 1000 + d,
        connections |-> <<"/m">> ] : d \in MapperDurations }

\* The state after Impl() and one open() that loaded a bag of MapperBags.
InitMapper ==
    /\ pc = "idle"
    /\ \E bag \in MapperBags :
          LET r == loadFile(bag)
          IN  /\ filePath = r[1]
              /\ playTree = r[2]
              /\ begin_time = r[3]
              /\ end_time = r[4]
              /\ beginTimeSpin = r[5]
              /\ endTimeSpin = r[6]
              /\ lastOp = Op("open_loadFile", <<bag.path>>)
    /\ recordTree = <<>>
    /\ numTopics = 0
    /\ recordNode = ""
    /\ playNode = ""
    /\ is_recording = FALSE
    /\ is_playing = FALSE
    /\ is_loop_checked = FALSE
    /\ is_clock_checked = TRUE
    /\ rate = SpinUnitsPerSecond
    /\ recordAct = FALSE
    /\ timer = TRUE
    /\ timeSpin = SpinMinimum
    /\ timeSlider = SliderMinimum
    /\ now = 0
    /\ out = <<>>
    /\ live = {}

NextMapper ==
    \/ \E value \in 0..MaxElapsed : timeSpin_edited(value)
    \/ \E value \in SliderMinimum..SliderMaximum : on_timeSlider_valueChanged(value)

SpecMapper == InitMapper /\ [][NextMapper]_vars

----------------------------------------------------------------------------
(* Properties. *)

\* A launch of rosbag (play, record or filter) as opposed to a kill.
IsSpawn(launch) == launch.program = "rosbag"
NoSpawn(launches) == \A i \in 1..Len(launches) : ~IsSpawn(launches[i])

\* C1 as stated: is_playing holds exactly when playNode is set, and
\* is_recording holds exactly when recordNode is set.
C1_FlagIffNode ==
    /\ is_playing <=> playNode # ""
    /\ is_recording <=> recordNode # ""

\* C1, amended: is_playing implies that playNode is set and is_recording
\* implies that recordNode is set; a node name stays set after its stop.
C1_FlagImpliesNode ==
    /\ is_playing => playNode # ""
    /\ is_recording => recordNode # ""

C1_Witness ==
    /\ is_playing /\ playNode # ""
    /\ is_recording /\ recordNode # ""

\* C2: after record(true) with no checked item in recordTree (the tree empty
\* or every item unchecked), is_recording is false and nothing was spawned.
C2_NoRecordWithoutSelection ==
    (lastOp = Op("record", <<"true">>) /\ CheckedTexts(recordTree) = <<>>)
        => (~is_recording /\ NoSpawn(out))

\* C3: after clickPlay or clickResume with no file loaded, is_playing is
\* false and nothing was launched.
C3_NoPlayWithoutLog ==
    (lastOp.op \in { "clickPlay", "clickResume" } /\ filePath = "")
        => (~is_playing /\ out = <<>>)

C3_Witness ==
    /\ lastOp.op = "clickResume"
    /\ filePath = ""
    /\ ~is_playing
    /\ timeSpin > 0

\* C4: open() while playing launches the kill of playNode and clears
\* is_playing while the play list is still the old one; the play list is
\* replaced only later, by loadFile, when nothing is playing and playNode
\* has been the target of a kill.
C4_KillBeforeReplace ==
    [][ /\ (lastOp'.op = "open" /\ is_playing)
            => /\ out' = << KillLaunch(playNode) >>
               /\ ~is_playing'
               /\ playNode \notin live'
               /\ UNCHANGED << playTree, filePath >>
        /\ (lastOp'.op = "open_loadFile")
            => /\ ~is_playing /\ ~is_playing'
               /\ playNode \notin live
               /\ out' = <<>> ]_vars

C4_Witness ==
    /\ lastOp.op = "open_loadFile"
    /\ filePath = "/tf.bag"
    /\ playNode = "play_0"
    /\ now = 1
    /\ live = {}
    /\ ~is_playing

\* C5: a step of open() in which loadFile throws leaves the file path, the
\* begin and end times and the play list as they were.
C5_FailedOpenChangesNothing ==
    [][ lastOp'.op = "open_loadFile_throw"
            => UNCHANGED << filePath, begin_time, end_time, playTree >> ]_vars

\* C6: after a successful open the play list holds exactly the topics of
\* the opened bag, each once, every one checked.
C6_PlayListIsTopicSet ==
    lastOp.op = "open_loadFile" =>
        LET bag == CHOOSE b \in Bags : b.path = filePath
            topics == { bag.connections[i] : i \in 1..Len(bag.connections) }
        IN  /\ { playTree[i].text : i \in 1..Len(playTree) } = topics
            /\ \A i, j \in 1..Len(playTree) :
                  i # j => playTree[i].text # playTree[j].text
            /\ \A i \in 1..Len(playTree) : playTree[i].checked

\* C7: the position shown by timeSpin lies within [0, end_time - begin_time].
C7_PositionWithinLog ==
    /\ 0 <= timeSpin
    /\ timeSpin <= end_time - begin_time

\* C8: a snapshot with as many topics as numTopics leaves recordTree (texts
\* and check states) and numTopics as they were; a snapshot with another
\* count replaces recordTree by the snapshot's topics, all checked.
C8_SnapshotSameCountNoOp ==
    [][ lastOp'.op = "on_timer_timeout" =>
            IF Len(lastOp'.arg) = numTopics
            THEN UNCHANGED << recordTree, numTopics >>
            ELSE /\ numTopics' = Len(lastOp'.arg)
                 /\ Len(recordTree') = Len(lastOp'.arg)
                 /\ \A i \in 1..Len(lastOp'.arg) :
                       recordTree'[i] = [text |-> lastOp'.arg[i], checked |-> TRUE]
      ]_vars

C8_Witness ==
    /\ lastOp.op = "on_timer_timeout"
    /\ Len(lastOp.arg) = 1
    /\ Len(recordTree) = 1
    /\ numTopics = 1
    /\ recordTree[1].text # lastOp.arg[1]
    /\ ~recordTree[1].checked

\* C9: save() with no checked item in playTree launches nothing, neither
\* before nor after the file dialog, and changes nothing of the session.
C9_SaveWithoutSelectionIsNoOp ==
    [][ (lastOp'.op \in { "save", "save_saveFile" } /\ CheckedTexts(playTree) = <<>>)
            => /\ out' = <<>>
               /\ UNCHANGED << is_playing, is_recording, playNode, recordNode,
                               filePath, playTree, recordTree, timeSpin >> ]_vars

\* The predicate C10 asks for: one clause topic == '<name>' per name,
\* joined by " or ".
RECURSIVE JoinedClauses(_)
JoinedClauses(names) ==
    IF Len(names) = 1
    THEN "topic == '" \o names[1] \o "'"
    ELSE "topic == '" \o names[1] \o "' or " \o JoinedClauses(Tail(names))

\* C10: saveFile with at least one checked item launches one rosbag filter
\* whose predicate is the clauses of the checked items in display order.
C10_FilterPredicate ==
    (lastOp.op = "save_saveFile" /\ CheckedTexts(playTree) # <<>>)
        => out = << Launch("rosbag",
                           << "filter", filePath, lastOp.arg[1],
                              JoinedClauses(CheckedTexts(playTree)) >>) >>

\* The duration on_timeSpin_valueChanged and on_timeSlider_valueChanged
\* divide and multiply by, in a state or in the next one.
Duration == endTimeSpin - beginTimeSpin

\* C11: when timeSpin changes while the duration is 0, the slider is set to
\* its minimum (no division by zero).
C11_ZeroDurationGivesMinimum ==
    [][ ( /\ lastOp'.op \in { "clockCallback", "timeSpin_edited" }
          /\ timeSpin' # timeSpin
          /\ Duration' = 0 )
            => timeSlider' = SliderMinimum ]_vars

\* C12 as stated: for a duration d > 0 and a value e in [0, d] entered into
\* timeSpin, converting the resulting slider value back gives a time within
\* one slider unit (d / span) of e, and within [0, d].
C12_RoundTripWithinUnit ==
    [][ ( /\ lastOp'.op = "timeSpin_edited"
          /\ timeSpin' # timeSpin
          /\ Duration' > 0
          /\ timeSpin' <= Duration' )
            => \A t \in TimeFromSlider(timeSlider', Duration') :
                   /\ (timeSpin' - t) * (SliderMaximum - SliderMinimum) <= Duration'
                   /\ (t - timeSpin') * (SliderMaximum - SliderMinimum) <= Duration'
                   /\ 0 <= t
                   /\ t <= Duration' ]_vars

\* C13: when open() has loaded a log, the position timeSpin is 0.
C13_OpenResetsPosition ==
    lastOp.op = "open_loadFile" => timeSpin = 0

\* The number of launches that are rosnode kill /<node>.
KillCount(launches, node) ==
    Cardinality({ i \in 1..Len(launches) : launches[i] = KillLaunch(node) })

\* The last argument of a launch.
LastArgument(launch) == launch.arguments[Len(launch.arguments)]

\* A handler step that runs stop(): clickStop always, open and save and
\* clickResume when playing (then stop is all clickResume does).
StopPlayStep ==
    \/ lastOp'.op \in { "clickStop", "open", "save" }
    \/ lastOp'.op = "clickResume" /\ is_playing

\* A handler step that ends the recording: the record action is unchecked,
\* or clickStop.
StopRecordStep ==
    \/ lastOp' = Op("record", <<"false">>)
    \/ lastOp'.op = "clickStop"

\* C14: a step that stops the playback (the recording) launches one kill
\* of the stored play (record) node when the flag was set and none when it
\* was not, and the flag is false afterwards; every kill targets a stored
\* node that was spawned and not killed before; the stored node is the one
\* named in the most recent spawn of its kind.
C14_StopKillsIffFlagSet ==
    [][ /\ StopPlayStep
            => /\ KillCount(out', playNode) = (IF is_playing THEN 1 ELSE 0)
               /\ ~is_playing'
        /\ StopRecordStep
            => /\ KillCount(out', recordNode) = (IF is_recording THEN 1 ELSE 0)
               /\ ~is_recording'
        /\ \A i \in 1..Len(out') :
              IF IsSpawn(out'[i])
              THEN /\ out'[i].arguments[1] = "play"
                        => LastArgument(out'[i]) = "__name:=" \o playNode'
                   /\ out'[i].arguments[1] = "record"
                        => LastArgument(out'[i]) = "__name:=" \o recordNode'
              ELSE \E node \in { playNode, recordNode } \cap live :
                        out'[i] = KillLaunch(node)
        /\ playNode' # playNode
            => \E i \in 1..Len(out') :
                  IsSpawn(out'[i]) /\ out'[i].arguments[1] = "play"
        /\ recordNode' # recordNode
            => \E i \in 1..Len(out') :
                  IsSpawn(out'[i]) /\ out'[i].arguments[1] = "record" ]_vars

\* clickStop while playing and recording has killed both nodes; a second
\* clickStop would find both flags false.
C14_Witness ==
    /\ lastOp.op = "clickStop"
    /\ out = << KillLaunch(recordNode), KillLaunch(playNode) >>
    /\ ~is_playing
    /\ ~is_recording

\* A launch of rosbag play.
IsPlaySpawn(launch) == IsSpawn(launch) /\ launch.arguments[1] = "play"

\* The argument that follows option in a launch that has the option.
ArgumentOf(launch, option) ==
    LET i == CHOOSE i \in 1..Len(launch.arguments) : launch.arguments[i] = option
    IN  launch.arguments[i + 1]

HasArgument(launch, option) ==
    \E i \in 1..Len(launch.arguments) : launch.arguments[i] = option

\* C15: with a log loaded, clickResume while playing launches one kill of
\* the play node, clears is_playing and spawns nothing; clickResume while
\* not playing spawns one rosbag play whose -s is the position, which it
\* leaves unchanged; clickPlay sets the position to 0 and spawns one rosbag
\* play with -s 0.
C15_ResumeAndPlayStartOffset ==
    [][ /\ (lastOp'.op = "clickResume" /\ filePath # "")
            => /\ timeSpin' = timeSpin
               /\ IF is_playing
                  THEN /\ out' = << KillLaunch(playNode) >>
                       /\ ~is_playing'
                  ELSE /\ Len(out') = 1
                       /\ IsPlaySpawn(out'[1])
                       /\ ArgumentOf(out'[1], "-s") = FormatDouble(timeSpin)
                       /\ is_playing'
        /\ (lastOp'.op = "clickPlay" /\ filePath # "")
            => /\ timeSpin' = 0
               /\ Len(out') = 1
               /\ IsPlaySpawn(out'[1])
               /\ ArgumentOf(out'[1], "-s") = "0"
               /\ is_playing' ]_vars

\* clickResume has started the playback at position 1.00 s.
C15_Witness ==
    /\ lastOp.op = "clickResume"
    /\ timeSpin = SpinUnitsPerSecond
    /\ Len(out) = 1
    /\ IsPlaySpawn(out[1])
    /\ ArgumentOf(out[1], "-s") = "1"

\* C16: config() launches nothing and leaves the flags, the node names, the
\* trees, the log and the position unchanged, when the dialog opens and when
\* it is accepted or rejected; a rejected dialog leaves the three settings
\* unchanged and an accepted one stores the dialog's values; every rosbag
\* play has --clock iff is_clock_checked, -l iff is_loop_checked, and -r
\* with the rate.
C16_ConfigOnlyChangesSettings ==
    [][ /\ lastOp'.op \in { "config", "config_accept", "config_reject" }
            => /\ out' = <<>>
               /\ UNCHANGED << is_playing, is_recording, playNode, recordNode,
                               playTree, recordTree, filePath, timeSpin,
                               timeSlider, recordAct >>
        /\ lastOp'.op \in { "config", "config_reject" }
            => UNCHANGED config_vars
        /\ lastOp'.op = "config_accept"
            => [ loop |-> is_loop_checked', clock |-> is_clock_checked',
                 rate |-> rate' ] \in ConfigChoices
        /\ \A i \in 1..Len(out') :
              IsPlaySpawn(out'[i])
                => /\ HasArgument(out'[i], "--clock") <=> is_clock_checked
                   /\ HasArgument(out'[i], "-l") <=> is_loop_checked
                   /\ ArgumentOf(out'[i], "-r") = FormatDouble(rate) ]_vars

\* A playback started after the dialog was accepted with loop on, clock off
\* and rate 2.5.
C16_Witness ==
    /\ Len(out) = 1
    /\ IsPlaySpawn(out[1])
    /\ HasArgument(out[1], "-l")
    /\ ~HasArgument(out[1], "--clock")
    /\ ArgumentOf(out[1], "-r") = "2.5"

\* C17: for a duration d > 0 and a value e in [0, d] entered into timeSpin,
\* the slider is set to e * span / d rounded half up, counted from the
\* slider's minimum.
C17_SliderRoundsHalfUp ==
    [][ ( /\ lastOp'.op = "timeSpin_edited"
          /\ timeSpin' # timeSpin
          /\ Duration' > 0
          /\ timeSpin' <= Duration' )
            => timeSlider' = SliderMinimum
                   + (2 * (SliderMaximum - SliderMinimum) * timeSpin' + Duration')
                         \div (2 * Duration') ]_vars

\* The names play() can give to a node within the bound on now.
PlayNodes == { PlayNodeName(t) : t \in 0..(MaxNow + 1) }

\* C18: at most one rosbag play node has been spawned and not been the
\* target of a kill, and it is the one named by playNode.
C18_NoOrphanPlay ==
    /\ Cardinality(live \cap PlayNodes) <= 1
    /\ (live \cap PlayNodes) \subseteq { playNode }

\* C19: when open() or save() has returned, by a chosen file or by a
\* cancelled dialog, the polling timer is running.
C19_TimerRunsAfterDialog ==
    lastOp.op \in { "open_loadFile", "open_cancel", "save_saveFile", "save_cancel" }
        => timer

\* C20: recordAct is checked exactly when is_recording holds, and after
\* clickStop neither is_recording nor is_playing holds.
C20_ToggleEqualsRecording ==
    /\ recordAct <=> is_recording
    /\ lastOp.op = "clickStop" => (~is_recording /\ ~is_playing)

\* The record action was checked with an empty recordTree: record(true)
\* has unchecked it again, which ran record(false) inside record(true).
C20_Witness ==
    /\ lastOp = Op("record", <<"true">>)
    /\ recordTree = <<>>
    /\ ~recordAct
    /\ ~is_recording
    /\ out = <<>>

====
